---------------------------- MODULE Spec2Model ----------------------------
(***************************************************************************)
(* A model of rfc3987.py (dgerber/rfc3987 1.3.1): the RFC 3986 / RFC 3987  *)
(* grammar as recognisers, the matcher cache of get_compiled_pattern,      *)
(* parse, _i2u, compose and the step-by-step reference resolution of       *)
(* resolve.                                                                *)
(*                                                                         *)
(* Python strings are TLA+ strings; a character is a string of length 1.   *)
(* The module text is ASCII, so two ASCII characters that belong to no     *)
(* rule of either grammar stand for non-ASCII code points:                 *)
(*     "^"  is U+00E9, a member of ucschar  (range A0-D7FF)               *)
(*     "|"  is U+E000, a member of iprivate (range E000-F8FF)            *)
(* Python's None is the value None below; no input of the model contains   *)
(* the characters "<" and ">".                                             *)
(***************************************************************************)
EXTENDS Naturals, Sequences, FiniteSets, TLC

VARIABLES
    REGEX,      \* the module flag REGEX: TRUE iff `import regex` succeeded
    cache,      \* get_compiled_pattern.cache: key -> compiled matcher
    compiles,   \* number of _re.compile calls made by get_compiled_pattern
    pc,         \* where the current call stands
    call,       \* the current call: its operation and arguments
    B, R, T,    \* resolve's locals: base parts, reference parts, target
    c,          \* resolve's local c: replacements made by the last subn
    ret,        \* what the call returned or raised
    log,        \* the get_compiled_pattern calls made so far, in order
    formatted,  \* format_patterns' local formatted: rule name -> pattern
    position,   \* where the loop of format_patterns stands in its list
    pat,        \* format_patterns' local pat: the template being expanded
    at,         \* where pat.format stands in pat
    expansion   \* the text pat.format has made so far

vars == <<REGEX, cache, compiles, pc, call, B, R, T, c, ret, log,
          formatted, position, pat, at, expansion>>

None == "<None>"

(***************************************************************************)
(* String helpers.                                                         *)
(***************************************************************************)
At(s, i) == SubSeq(s, i, i)

\* The slice s[i-1:j] of Python: the characters i..j that s has.
Sub(s, i, j) ==
    IF i > j \/ i > Len(s) THEN ""
    ELSE SubSeq(s, i, IF j > Len(s) THEN Len(s) ELSE j)

From(s, i) == Sub(s, i, Len(s))

\* Index just after the longest run, starting at i, of characters outside
\* `stops`: what a greedy negated class [^...]* consumes.
RECURSIVE Span(_, _, _)
Span(s, i, stops) ==
    IF i > Len(s) \/ At(s, i) \in stops THEN i ELSE Span(s, i + 1, stops)

\* Smallest index >= i where the text t occurs in s, or 0.
RECURSIVE Find(_, _, _)
Find(s, t, i) ==
    IF i + Len(t) - 1 > Len(s) THEN 0
    ELSE IF Sub(s, i, i + Len(t) - 1) = t THEN i
    ELSE Find(s, t, i + 1)

(***************************************************************************)
(* Character classes of _common_rules, _uri_rules and _iri_rules.          *)
(***************************************************************************)
LOWER == {"a","b","c","d","e","f","g","h","i","j","k","l","m",
          "n","o","p","q","r","s","t","u","v","w","x","y","z"}

UPPER == {"A","B","C","D","E","F","G","H","I","J","K","L","M",
          "N","O","P","Q","R","S","T","U","V","W","X","Y","Z"}

DIGIT == {"0","1","2","3","4","5","6","7","8","9"}

HEXDIG == DIGIT \cup {"A","B","C","D","E","F"}

unreserved == LOWER \cup UPPER \cup DIGIT \cup {".", "_", "~", "-"}

sub_delims == {"!", "$", "&", "'", "(", ")", "*", "+", ",", ";", "="}

gen_delims == {":", "/", "?", "#", "[", "]", "@"}

ucschar == {"^"}

iprivate == {"|"}

iunreserved(I) == IF I THEN unreserved \cup ucschar ELSE unreserved

\* pchar / ipchar without the pct_encoded alternative (three characters).
pchar(I) == iunreserved(I) \cup sub_delims \cup {":", "@"}

\* s[i..] is a repetition (class | pct_encoded)*.
RECURSIVE Star(_, _, _)
Star(s, i, class) ==
    IF i > Len(s) THEN TRUE
    ELSE IF At(s, i) \in class THEN Star(s, i + 1, class)
    ELSE IF /\ At(s, i) = "%"
            /\ i + 2 <= Len(s)
            /\ At(s, i + 1) \in HEXDIG
            /\ At(s, i + 2) \in HEXDIG
         THEN Star(s, i + 3, class)
    ELSE FALSE

(***************************************************************************)
(* _common_rules.                                                          *)
(***************************************************************************)
scheme(s) ==
    /\ Len(s) >= 1
    /\ At(s, 1) \in LOWER \cup UPPER
    /\ \A i \in 2..Len(s) : At(s, i) \in LOWER \cup UPPER \cup DIGIT \cup {"+", ".", "-"}

port(s) == \A i \in 1..Len(s) : At(s, i) \in DIGIT

h16(s) == Len(s) \in 1..4 /\ \A i \in 1..Len(s) : At(s, i) \in HEXDIG

dec_octet(s) ==
    /\ Len(s) \in 1..3
    /\ \A i \in 1..Len(s) : At(s, i) \in DIGIT
    /\ Len(s) = 3 =>
          \/ At(s, 1) \in {"0", "1"}
          \/ At(s, 1) = "2" /\ At(s, 2) \in {"0", "1", "2", "3", "4"}
          \/ Sub(s, 1, 2) = "25" /\ At(s, 3) \in {"0", "1", "2", "3", "4", "5"}

\* s is n >= 1 pieces separated by sep, every piece satisfying Piece.
RECURSIVE Pieces(_, _, _)
Pieces(s, sep, acc) ==
    LET k == Find(s, sep, 1) IN
    IF k = 0 THEN Append(acc, s)
    ELSE Pieces(From(s, k + Len(sep)), sep, Append(acc, Sub(s, 1, k - 1)))

IPv4address(s) ==
    LET p == Pieces(s, ".", <<>>) IN
    Len(p) = 4 /\ \A i \in 1..4 : dec_octet(p[i])

\* s = (h16 ":"){n} for some n in lo..hi
H16Colons(s, lo, hi) ==
    IF s = "" THEN lo = 0
    ELSE /\ At(s, Len(s)) = ":"
         /\ LET p == Pieces(Sub(s, 1, Len(s) - 1), ":", <<>>) IN
            Len(p) \in lo..hi /\ \A i \in 1..Len(p) : h16(p[i])

ls32(s) ==
    \/ LET p == Pieces(s, ":", <<>>) IN Len(p) = 2 /\ h16(p[1]) /\ h16(p[2])
    \/ IPv4address(s)

\* s = (h16 ":"){n} ls32, where ls32 is the last two h16 or an IPv4address
H16ColonsLs32(s, n) ==
    \E k \in 0..Len(s) : H16Colons(Sub(s, 1, k), n, n) /\ ls32(From(s, k + 1))

\* s = (?:(?:h16 ":"){,n} h16)?
OptH16s(s, n) ==
    \/ s = ""
    \/ LET p == Pieces(s, ":", <<>>) IN
       Len(p) \in 1..(n + 1) /\ \A i \in 1..Len(p) : h16(p[i])

\* The nine branches of the rule.  In the third, "{h16}?" expands to
\* [0-9A-F]{1,4}? (a lazy repetition, not an optional one): the h16 before
\* "::" is required there.
IPv6address(s) ==
    \/ H16ColonsLs32(s, 6)
    \/ \E k \in 1..(Len(s) - 1) :
          /\ Sub(s, k, k + 1) = "::"
          /\ LET pre == Sub(s, 1, k - 1)
                 post == From(s, k + 2)
             IN \/ pre = "" /\ H16ColonsLs32(post, 5)
                \/ h16(pre) /\ H16ColonsLs32(post, 4)
                \/ OptH16s(pre, 1) /\ H16ColonsLs32(post, 3)
                \/ OptH16s(pre, 2) /\ H16ColonsLs32(post, 2)
                \/ OptH16s(pre, 3) /\ H16ColonsLs32(post, 1)
                \/ OptH16s(pre, 4) /\ ls32(post)
                \/ OptH16s(pre, 5) /\ h16(post)
                \/ OptH16s(pre, 6) /\ post = ""

IPvFuture(s) ==
    LET k == Find(s, ".", 1) IN
    /\ k >= 3
    /\ At(s, 1) = "v"
    /\ \A i \in 2..(k - 1) : At(s, i) \in HEXDIG
    /\ k < Len(s)
    /\ \A i \in (k + 1)..Len(s) : At(s, i) \in unreserved \cup sub_delims \cup {":"}

IP_literal(s) ==
    /\ Len(s) >= 2
    /\ At(s, 1) = "["
    /\ At(s, Len(s)) = "]"
    /\ LET x == Sub(s, 2, Len(s) - 1) IN IPv6address(x) \/ IPvFuture(x)

(***************************************************************************)
(* _uri_rules (I = FALSE) and their i-prefixed _iri_rules (I = TRUE).      *)
(***************************************************************************)
userinfo(s, I) == Star(s, 1, iunreserved(I) \cup sub_delims \cup {":"})

reg_name(s, I) == Star(s, 1, iunreserved(I) \cup sub_delims)

host(s, I) == IP_literal(s) \/ IPv4address(s) \/ reg_name(s, I)

\* (?:{userinfo}@)?{host}(?::{port})?
authority(s, I) ==
    \E i \in 0..Len(s) :
       /\ i > 0 => At(s, i) = "@" /\ userinfo(Sub(s, 1, i - 1), I)
       /\ \E j \in i..Len(s) :
             /\ host(Sub(s, i + 1, j), I)
             /\ j < Len(s) => At(s, j + 1) = ":" /\ port(From(s, j + 2))

segment(s, I) == Star(s, 1, pchar(I))

segment_nz(s, I) == s # "" /\ segment(s, I)

segment_nz_nc(s, I) ==
    s # "" /\ Star(s, 1, iunreserved(I) \cup sub_delims \cup {"@"})

\* (?:/{segment})*
path_abempty(s, I) ==
    /\ s # "" => At(s, 1) = "/"
    /\ Star(s, 1, pchar(I) \cup {"/"})

\* /(?:{segment_nz}(?:/{segment})*)?
path_absolute(s, I) ==
    /\ s # "" /\ At(s, 1) = "/"
    /\ Len(s) >= 2 => At(s, 2) # "/"
    /\ Star(s, 1, pchar(I) \cup {"/"})

\* {segment_nz_nc}(?:/{segment})*
path_noscheme(s, I) ==
    LET k == Span(s, 1, {"/"}) IN
    /\ segment_nz_nc(Sub(s, 1, k - 1), I)
    /\ Star(s, k, pchar(I) \cup {"/"})

\* {segment_nz}(?:/{segment})*
path_rootless(s, I) ==
    /\ s # "" /\ At(s, 1) # "/"
    /\ Star(s, 1, pchar(I) \cup {"/"})

path_empty(s) == s = ""

query(s, I) ==
    Star(s, 1, pchar(I) \cup {"/", "?"} \cup (IF I THEN iprivate ELSE {}))

fragment(s, I) == Star(s, 1, pchar(I) \cup {"/", "?"})

(***************************************************************************)
(* Python dicts: functions from a set of keys to strings or None.          *)
(***************************************************************************)
EmptyDict == [k \in {} |-> None]

\* dic.get(k)
Get(dic, k) == IF k \in DOMAIN dic THEN dic[k] ELSE None

\* What a call hands back: a returned value or a raised exception.
Return(type, value) == [status |-> "return", type |-> type, value |-> value]

Raise(type, value) == [status |-> "raise", type |-> type, value |-> value]

NoReturn == [status |-> "none", type |-> "none", value |-> None]

(***************************************************************************)
(* The reference rules as matchers.  No component rule accepts one of the  *)
(* delimiters that end it (":" "/" "?" "#" for scheme, "/" "?" "#" for     *)
(* authority, "?" "#" for the paths, "#" for query and fragment), so a     *)
(* match of a reference rule cuts the text at fixed places: Cut finds      *)
(* them, and the rule's operator checks every piece against its rule.      *)
(***************************************************************************)
Cut(s) ==
    LET n  == Span(s, 1, {":", "/", "?", "#"})
        hasScheme == n > 1 /\ n <= Len(s) /\ At(s, n) = ":"
        p0 == IF hasScheme THEN n + 1 ELSE 1
        hasAuth == Sub(s, p0, p0 + 1) = "//"
        p1 == IF hasAuth THEN Span(s, p0 + 2, {"/", "?", "#"}) ELSE p0
        p2 == Span(s, p1, {"?", "#"})
        hasQuery == p2 <= Len(s) /\ At(s, p2) = "?"
        p3 == IF hasQuery THEN Span(s, p2 + 1, {"#"}) ELSE p2
        hasFrag == p3 <= Len(s) /\ At(s, p3) = "#"
    IN [scheme    |-> IF hasScheme THEN Sub(s, 1, n - 1) ELSE None,
        authority |-> IF hasAuth THEN Sub(s, p0 + 2, p1 - 1) ELSE None,
        path      |-> Sub(s, p1, p2 - 1),
        query     |-> IF hasQuery THEN Sub(s, p2 + 1, p3 - 1) ELSE None,
        fragment  |-> IF hasFrag THEN From(s, p3 + 1) ELSE None]

\* (?://{authority}{path_abempty}|{path_absolute}|{path_rootless}|{path_empty})
hier_part(g, I) ==
    IF g.authority # None
    THEN authority(g.authority, I) /\ path_abempty(g.path, I)
    ELSE path_absolute(g.path, I) \/ path_rootless(g.path, I) \/ path_empty(g.path)

\* (?://{authority}{path_abempty}|{path_absolute}|{path_noscheme}|{path_empty})
relative_part(g, I) ==
    IF g.authority # None
    THEN authority(g.authority, I) /\ path_abempty(g.path, I)
    ELSE path_absolute(g.path, I) \/ path_noscheme(g.path, I) \/ path_empty(g.path)

\* {scheme}:{hier_part}(?:\?{query})?
absolute_URI(g, I) ==
    /\ g.scheme # None /\ scheme(g.scheme)
    /\ hier_part(g, I)
    /\ g.query # None => query(g.query, I)
    /\ g.fragment = None

\* {absolute_URI}(?:\#{fragment})?
URI(g, I) ==
    /\ absolute_URI([g EXCEPT !.fragment = None], I)
    /\ g.fragment # None => fragment(g.fragment, I)

\* {relative_part}(?:\?{query})?(?:\#{fragment})?
relative_ref(g, I) ==
    /\ g.scheme = None
    /\ relative_part(g, I)
    /\ g.query # None => query(g.query, I)
    /\ g.fragment # None => fragment(g.fragment, I)

\* (?:{URI}|{relative_ref})
URI_reference(g, I) == URI(g, I) \/ relative_ref(g, I)

REFERENCE_RULES == {"IRI_reference", "IRI", "absolute_IRI",
                    "irelative_ref", "irelative_part",
                    "URI_reference", "URI", "absolute_URI",
                    "relative_ref", "relative_part"}

IsIRIRule(rule) == rule \in {"IRI_reference", "IRI", "absolute_IRI",
                             "irelative_ref", "irelative_part"}

\* The text s, cut into g, is in the language of `rule` (a reference rule,
\* or the rule scheme as an instance of a rule that is not a reference rule).
CutMatch(g, s, rule) ==
    LET I == IsIRIRule(rule)
    IN CASE rule \in {"URI_reference", "IRI_reference"} -> URI_reference(g, I)
         [] rule \in {"URI", "IRI"}                     -> URI(g, I)
         [] rule \in {"absolute_URI", "absolute_IRI"}   -> absolute_URI(g, I)
         [] rule \in {"relative_ref", "irelative_ref"}  -> relative_ref(g, I)
         [] rule \in {"relative_part", "irelative_part"} ->
                /\ g.scheme = None /\ g.query = None /\ g.fragment = None
                /\ relative_part(g, I)
         [] rule = "scheme"                             -> scheme(s)
         [] OTHER                                       -> FALSE

\* The whole text s is in the language of `rule`.
FullMatch(s, rule) == CutMatch(Cut(s), s, rule)

\* The names of the capture groups of DEFAULT_GROUP_NAMES that resolve and
\* compose read, as they occur in the pattern of `rule`.  (The other named
\* groups of the pattern, such as host, port or the rule's own name, are
\* left out of the model's component maps: nothing modelled here reads them.)
GroupNames(rule) ==
    CASE rule \in {"URI_reference", "URI"} ->
             {"scheme", "authority", "path", "query", "fragment"}
      [] rule = "absolute_URI"  -> {"scheme", "authority", "path", "query"}
      [] rule = "relative_ref"  -> {"authority", "path", "query", "fragment"}
      [] rule = "relative_part" -> {"authority", "path"}
      [] rule \in {"IRI_reference", "IRI"} ->
             {"scheme", "iauthority", "ipath", "iquery", "ifragment"}
      [] rule = "absolute_IRI"   -> {"scheme", "iauthority", "ipath", "iquery"}
      [] rule = "irelative_ref"  -> {"iauthority", "ipath", "iquery", "ifragment"}
      [] rule = "irelative_part" -> {"iauthority", "ipath"}
      [] OTHER                   -> {"scheme"}

\* The named groups of a match of the text s, cut into g, by the pattern of
\* `rule`.
Groups(g, s, rule) ==
    [k \in GroupNames(rule) |->
        CASE k = "scheme" -> IF rule = "scheme" THEN s ELSE g.scheme
          [] k \in {"authority", "iauthority"} -> g.authority
          [] k \in {"path", "ipath"}           -> g.path
          [] k \in {"query", "iquery"}         -> g.query
          [] OTHER                             -> g.fragment]

\* m.groupdict() of a match of the text s by the pattern of `rule`.
groupdict(s, rule) == Groups(Cut(s), s, rule)

\* get_compiled_pattern('^%(rule)s$').match(string): the text the match
\* covers, or None.  "$" also matches just before a line feed that ends the
\* string, so the match may stop one character short of the end.
AnchoredMatch(s, rule) ==
    IF FullMatch(s, rule) THEN s
    ELSE IF Len(s) >= 1 /\ At(s, Len(s)) = "\n" /\ FullMatch(Sub(s, 1, Len(s) - 1), rule)
         THEN Sub(s, 1, Len(s) - 1)
    ELSE None

\* _iri_non_validating_re.match(string).groupdict(): the splitting
\* expression of RFC 3986 appendix B.  It matches any string; "." does not
\* match a line feed, so the fragment stops before the first one.
DotStar(g) ==
    IF g.fragment = None THEN g
    ELSE [g EXCEPT !.fragment = Sub(g.fragment, 1, Span(g.fragment, 1, {"\n"}) - 1)]

_iri_non_validating_re(s) == DotStar(Cut(s))

(***************************************************************************)
(* get_compiled_pattern and its cache.                                     *)
(***************************************************************************)
\* The keys of the dict `patterns` (and of _upatterns_no_names): every rule
\* name of the three rule tables.
RuleNames ==
    {"scheme", "port", "IP_literal", "IPv6address", "ls32", "h16",
     "IPv4address", "dec_octet", "IPvFuture", "unreserved", "reserved",
     "pct_encoded", "gen_delims", "sub_delims",
     "URI_reference", "URI", "absolute_URI", "relative_ref", "hier_part",
     "relative_part", "authority", "host", "userinfo", "reg_name", "path",
     "path_abempty", "path_absolute", "path_noscheme", "path_rootless",
     "path_empty", "segment", "segment_nz", "segment_nz_nc", "query",
     "fragment", "pchar",
     "IRI_reference", "IRI", "absolute_IRI", "irelative_ref", "ihier_part",
     "irelative_part", "iauthority", "iuserinfo", "ihost", "ireg_name",
     "ipath", "ipath_empty", "ipath_rootless", "ipath_noscheme",
     "ipath_absolute", "ipath_abempty", "isegment_nz_nc", "isegment_nz",
     "isegment", "iquery", "ifragment", "ipchar", "iunreserved", "iprivate",
     "ucschar"}

\* pats.get(rule) is a non-empty string.  The two empty rules are wrapped in
\* a named group in `patterns` and stay empty in _upatterns_no_names.
HasPattern(regex, rule) ==
    rule \in RuleNames /\ (regex \/ rule \notin {"path_empty", "ipath_empty"})

\* The names of the %(name)s conversions of a template, from index i on.
RECURSIVE Placeholders(_, _)
Placeholders(template, i) ==
    LET k == Find(template, "%(", i)
        e == IF k = 0 THEN 0 ELSE Find(template, ")", k + 2)
    IN IF k = 0 \/ e = 0 THEN {}
       ELSE {Sub(template, k + 2, e - 1)} \cup Placeholders(template, e + 1)

\* A get_compiled_pattern without the test of line 355: every call compiles.
get_compiled_pattern_uncached(ch, n, regex, rule, flags) ==
    LET key == <<rule, flags>>
        matcher == [id |-> n + 1, rule |-> rule, flags |-> flags]
    IN IF ~HasPattern(regex, rule) /\ Placeholders(rule, 1) \ RuleNames # {}
       THEN [cache |-> ch, compiles |-> n,
             ret |-> Raise("KeyError",
                        CHOOSE x \in Placeholders(rule, 1) \ RuleNames : TRUE)]
       ELSE [cache |-> [x \in DOMAIN ch \cup {key} |->
                           IF x = key THEN matcher ELSE ch[x]],
             compiles |-> n + 1,
             ret |-> Return("matcher", matcher)]

\* get_compiled_pattern(rule, flags) called with cache ch after n compiles:
\* the cache and the number of compiles afterwards, and the outcome.
get_compiled_pattern(ch, n, regex, rule, flags) ==
    LET key == <<rule, flags>>
        missing == Placeholders(rule, 1) \ RuleNames
        matcher == [id |-> n + 1, rule |-> rule, flags |-> flags]
    IN IF key \in DOMAIN ch
       THEN [cache |-> ch, compiles |-> n, ret |-> Return("matcher", ch[key])]
       ELSE IF ~HasPattern(regex, rule) /\ missing # {}
       THEN [cache |-> ch, compiles |-> n,
             ret |-> Raise("KeyError", CHOOSE x \in missing : TRUE)]
       ELSE [cache |-> [x \in DOMAIN ch \cup {key} |->
                           IF x = key THEN matcher ELSE ch[x]],
             compiles |-> n + 1,
             ret |-> Return("matcher", matcher)]

(***************************************************************************)
(* _i2u, parse, compose.                                                   *)
(***************************************************************************)
UNames == {"authority", "path", "query", "fragment"}

_i2u(dic) ==
    [k \in DOMAIN dic \cup UNames |->
        IF k \in UNames /\ Get(dic, k) = None THEN Get(dic, "i" \o k)
        ELSE dic[k]]

NotValid(string, rule) ==
    Raise("ValueError", [text |-> "%r is not a valid %r.", args |-> <<string, rule>>])

\* Lines 392-397: g is what get_compiled_pattern handed back, m the text
\* its match covers (None: no match).
ParseMatch(g, m, regex, string, rule) ==
    IF g.ret.status = "raise" THEN g
    ELSE IF m = None THEN [g EXCEPT !.ret = NotValid(string, rule)]
    ELSE IF regex
    THEN [g EXCEPT !.ret = Return("dict", _i2u(groupdict(m, rule)))]
    ELSE [g EXCEPT !.ret = Return("dict", _i2u(_iri_non_validating_re(string)))]

\* parse(string, rule) called with cache ch after n compiles: the cache and
\* the number of compiles afterwards, and the outcome.
parse(ch, n, regex, string, rule) ==
    IF ~regex /\ rule \notin REFERENCE_RULES
    THEN [cache |-> ch, compiles |-> n,
          ret |-> Raise("ValueError", [text |-> "%s", args |-> <<rule>>])]
    ELSE IF rule = ""
    THEN [cache |-> ch, compiles |-> n,
          ret |-> Return("dict", _i2u(_iri_non_validating_re(string)))]
    ELSE ParseMatch(get_compiled_pattern(ch, n, regex, "^%(" \o rule \o ")s$", 0),
                    AnchoredMatch(string, rule), regex, string, rule)

ComposeParams == {"scheme", "authority", "path", "query", "fragment",
                  "iauthority", "ipath", "iquery", "ifragment"}

\* A compose that tests its parameters for truth where lines 416-424 test
\* them against None: an empty component leaves no marker.
compose_truthy(kw) ==
    LET res1 == IF ~(Get(kw, "scheme") \in {None, ""})
                THEN Get(kw, "scheme") \o ":" ELSE ""
        res2 == IF ~(Get(kw, "authority") \in {None, ""})
                THEN res1 \o "//" \o Get(kw, "authority") ELSE res1
        res3 == IF Get(kw, "path") \in {None, ""} THEN res2
                ELSE res2 \o Get(kw, "path")
        res4 == IF ~(Get(kw, "query") \in {None, ""})
                THEN res3 \o "?" \o Get(kw, "query") ELSE res3
    IN IF ~(Get(kw, "fragment") \in {None, ""})
       THEN res4 \o "#" \o Get(kw, "fragment") ELSE res4

\* compose(**kw).  locals() hands _i2u a dict that is a copy of the frame:
\* the fold fills that copy, and the parameters read below keep the values
\* they were called with.
compose(kw) ==
    LET frame  == [k \in ComposeParams |-> Get(kw, k)]
        folded == _i2u(frame)
        res1 == IF frame.scheme # None THEN frame.scheme \o ":" ELSE ""
        res2 == IF frame.authority # None THEN res1 \o "//" \o frame.authority
                ELSE res1
        res3 == IF frame.path = None \/ frame.path = "" THEN res2
                ELSE res2 \o frame.path
        res4 == IF frame.query # None THEN res3 \o "?" \o frame.query ELSE res3
    IN IF frame.fragment # None THEN res4 \o "#" \o frame.fragment ELSE res4

(***************************************************************************)
(* The two substitutions of resolve.                                       *)
(***************************************************************************)
\* "$" at index i of s: the end of s, or just before a line feed ending s.
AtDollar(s, i) == i = Len(s) + 1 \/ (i = Len(s) /\ At(s, i) = "\n")

\* (?:/|$) at index i: the index after it, or 0 when it does not match.
SlashOrEnd(s, i) ==
    IF i <= Len(s) /\ At(s, i) = "/" THEN i + 1
    ELSE IF AtDollar(s, i) THEN i
    ELSE 0

\* A match of ^\.{1,2}(?:/|$)|(?<=/)\.(?:/|$) starting at index i: the index
\* after it, or 0.
DotMatch(s, i) ==
    LET two == IF i = 1 /\ Sub(s, 1, 2) = ".." THEN SlashOrEnd(s, 3) ELSE 0
        one == IF i = 1 /\ Sub(s, 1, 1) = "." THEN SlashOrEnd(s, 2) ELSE 0
        aft == IF i > 1 /\ At(s, i - 1) = "/" /\ Sub(s, i, i) = "."
               THEN SlashOrEnd(s, i + 1) ELSE 0
    IN IF two # 0 THEN two ELSE IF one # 0 THEN one ELSE aft

\* _dot_segments.sub('', s): every match, left to right, deleted.
RECURSIVE DotSub(_, _, _)
DotSub(s, i, out) ==
    IF i > Len(s) THEN out
    ELSE LET e == DotMatch(s, i) IN
         IF e # 0 THEN DotSub(s, e, out)
         ELSE DotSub(s, i + 1, out \o At(s, i))

\* A first pass that deletes nothing.
_dot_segments_kept(s) == s

_dot_segments_sub(s) == DotSub(s, 1, "")

\* Index after the longest {segment} starting at i: pchar of _uri_rules.
RECURSIVE SegEnd(_, _)
SegEnd(s, i) ==
    IF i > Len(s) THEN i
    ELSE IF At(s, i) \in pchar(FALSE) THEN SegEnd(s, i + 1)
    ELSE IF /\ At(s, i) = "%"
            /\ i + 2 <= Len(s)
            /\ At(s, i + 1) \in HEXDIG
            /\ At(s, i + 2) \in HEXDIG
         THEN SegEnd(s, i + 3)
    ELSE i

\* /\.{2}(?:/|$) at index p: the index after it, or 0.
UpMatch(s, p) == IF Sub(s, p, p + 2) = "/.." THEN SlashOrEnd(s, p + 3) ELSE 0

\* A match of /?{segment}/\.{2}(?:/|$) starting at index i: the index after
\* it, or 0.  The optional "/" is tried first; a segment shorter than the
\* longest one is followed by a pchar, never by "/".
TwoDotsMatch(s, i) ==
    LET withSlash == IF At(s, i) = "/" THEN UpMatch(s, SegEnd(s, i + 1)) ELSE 0
    IN IF withSlash # 0 THEN withSlash ELSE UpMatch(s, SegEnd(s, i))

\* Start of the leftmost match at or after index i, or 0.
RECURSIVE TwoDotsSearch(_, _)
TwoDotsSearch(s, i) ==
    IF i > Len(s) THEN 0
    ELSE IF TwoDotsMatch(s, i) # 0 THEN i
    ELSE TwoDotsSearch(s, i + 1)

\* A subn that counts the leftmost match and puts it back as it was.
_2dots_segments_subn_same(s) ==
    IF TwoDotsSearch(s, 1) = 0 THEN <<s, 0>> ELSE <<s, 1>>

\* _2dots_segments.subn('/', s, 1): <<new string, number of replacements>>.
_2dots_segments_subn(s) ==
    LET i == TwoDotsSearch(s, 1) IN
    IF i = 0 THEN <<s, 0>>
    ELSE <<Sub(s, 1, i - 1) \o "/" \o From(s, TwoDotsMatch(s, i)), 1>>

(***************************************************************************)
(* resolve, step by step.  An argument is a string or a dict:              *)
(* Str(s) and Dict(d) tell which (isinstance(x, basestring)).              *)
(***************************************************************************)
Str(s) == [type |-> "str", value |-> s]

Dict(d) == [type |-> "dict", value |-> d]

\* `not x` for a string or None
Falsy(x) == x = None \/ x = ""

\* Lines 444-447 without the test of line 448.
AnyScheme(p, base) == p

\* Lines 448-449: p holds B, unless the base did not parse.
ExpectScheme(p, base) ==
    IF p.ret.status = "raise" THEN p
    ELSE IF Falsy(Get(p.ret.value, "scheme"))
    THEN [p EXCEPT !.ret = Raise("ValueError",
             [text |-> "Expected an IRI (with scheme), not %r.",
              args |-> <<base.value>>])]
    ELSE p

\* Lines 444-449: B, or the exception raised on the way.
ResolveBase(ch, n, regex, base) ==
    ExpectScheme(IF base.type = "str" THEN parse(ch, n, regex, base.value, "IRI")
                 ELSE [cache |-> ch, compiles |-> n,
                       ret |-> Return("dict", _i2u(base.value))],
                 base)

\* Lines 451-454: R, or the exception raised on the way.
ResolveRef(ch, n, regex, uriref) ==
    IF uriref.type = "str" THEN parse(ch, n, regex, uriref.value, "IRI_reference")
    ELSE [cache |-> ch, compiles |-> n, ret |-> Return("dict", _i2u(uriref.value))]

DotSegmentsKey == <<"^\\.{1,2}(?:/|$)|(?<=/)\\.(?:/|$)", 0>>

TwoDotsKey == <<"/?%(segment)s/\\.{2}(?:/|$)", 0>>

\* Lines 457-458: the two patterns, fetched through the cache.
ResolvePatterns(ch, n, regex) ==
    LET g == get_compiled_pattern(ch, n, regex, DotSegmentsKey[1], 0)
    IN get_compiled_pattern(g.cache, g.compiles, regex, TwoDotsKey[1], 0)

\* A line 460 that takes the reference as it is in strict mode only.
TakesReferenceIfStrict(Bv, Rv, strict) == ~Falsy(Rv["scheme"]) /\ strict

\* Line 460: the reference is taken as it is.
TakesReference(Bv, Rv, strict) ==
    ~Falsy(Rv["scheme"]) /\ (strict \/ Rv["scheme"] # Bv["scheme"])

\* Line 477: ''.join(B['path'].rpartition('/')[:2]) + R['path']
RECURSIVE LastSlash(_, _)
LastSlash(s, i) ==
    IF i = 0 THEN 0 ELSE IF At(s, i) = "/" THEN i ELSE LastSlash(s, i - 1)

MergePaths(bpath, rpath) == Sub(bpath, 1, LastSlash(bpath, Len(bpath))) \o rpath

\* Lines 471-478: T['path'] when the reference has a path and no authority.
MergedPath(Bv, Rv) ==
    IF Sub(Rv["path"], 1, 1) = "/" THEN Rv["path"]
    ELSE IF Bv["authority"] # None /\ Falsy(Bv["path"]) THEN "/" \o Rv["path"]
    ELSE MergePaths(Bv["path"], Rv["path"])

\* Lines 460-486: T, or the exception raised on the way.
Merge(Bv, Rv, strict) ==
    IF "scheme" \notin DOMAIN Rv THEN Raise("KeyError", "scheme")
    ELSE IF TakesReference(Bv, Rv, strict) THEN Return("dict", Rv)
    ELSE IF Rv["authority"] # None
    THEN Return("dict",
            [scheme |-> Bv["scheme"], authority |-> Rv["authority"],
             path |-> Rv["path"], query |-> Rv["query"],
             fragment |-> Rv["fragment"]])
    ELSE IF ~Falsy(Rv["path"])
    THEN IF /\ Sub(Rv["path"], 1, 1) # "/"
            /\ ~(Bv["authority"] # None /\ Falsy(Bv["path"]))
            /\ Bv["path"] = None
         THEN Raise("AttributeError", "rpartition")
         ELSE Return("dict",
                 [scheme |-> Bv["scheme"], authority |-> Bv["authority"],
                  path |-> MergedPath(Bv, Rv), query |-> Rv["query"],
                  fragment |-> Rv["fragment"]])
    ELSE Return("dict",
            [scheme |-> Bv["scheme"], authority |-> Bv["authority"],
             path |-> Bv["path"],
             query |-> IF Rv["query"] # None THEN Rv["query"] ELSE Bv["query"],
             fragment |-> Rv["fragment"]])

\* Lines 488-490: the while loop run to its end.
RECURSIVE TwoDotsLoop(_)
TwoDotsLoop(path) ==
    LET r == _2dots_segments_subn(path) IN
    IF r[2] = 0 THEN r[1] ELSE TwoDotsLoop(r[1])

\* Lines 491-494.
ResolveResult(Tv, return_parts) ==
    IF return_parts THEN Return("dict", Tv) ELSE Return("str", compose(Tv))

\* Lines 487-494, from the outcome m of the merge.
ResolveMerged(m, return_parts) ==
    IF m.status = "raise" THEN m
    ELSE IF m.value["path"] = None THEN Raise("TypeError", "sub")
    ELSE ResolveResult(
            [m.value EXCEPT !["path"] = TwoDotsLoop(_dot_segments_sub(@))],
            return_parts)

\* Lines 460-494, from the outcome r of lines 451-454.
ResolveParsed(Bv, r, strict, return_parts) ==
    IF r.ret.status = "raise" THEN r.ret
    ELSE ResolveMerged(Merge(Bv, r.ret.value, strict), return_parts)

\* Lines 451-494, from the outcome b of lines 444-449.
ResolveOnto(b, regex, uriref, strict, return_parts) ==
    IF b.ret.status = "raise" THEN b.ret
    ELSE ResolveParsed(b.ret.value,
                       ResolveRef(b.cache, b.compiles, regex, uriref),
                       strict, return_parts)

\* resolve(base, uriref, strict, return_parts) as a whole: what it returns
\* or raises.
resolve(regex, base, uriref, strict, return_parts) ==
    ResolveOnto(ResolveBase(EmptyDict, 0, regex, base),
                regex, uriref, strict, return_parts)

(***************************************************************************)
(* The rule tables and format_patterns.                                    *)
(***************************************************************************)
\* Lines 96-129.  A row is <<rule name, template>>; the template of
\* IPv6address is given as .replace(' ', '') leaves it.
_common_rules ==
  <<
    <<"scheme",
      "[a-zA-Z][a-zA-Z0-9+.-]*">>,
    <<"port",
      "[0-9]*">>,
    <<"IP_literal",
      "\\[(?:{IPv6address}|{IPvFuture})\\]">>,
    <<"IPv6address",
      "(?:(?:{h16}:){{6}}{ls32}|::(?:{h16}:){{5}}{ls32}|{h16}?:"
      \o ":(?:{h16}:){{4}}{ls32}|(?:(?:{h16}:)?{h16})?::(?:{h16}:)"
      \o "{{3}}{ls32}|(?:(?:{h16}:){{,2}}{h16})?::(?:{h16}:){{2}}{"
      \o "ls32}|(?:(?:{h16}:){{,3}}{h16})?::(?:{h16}:){ls32}|(?:(?"
      \o ":{h16}:){{,4}}{h16})?::{ls32}|(?:(?:{h16}:){{,5}}{h16})?"
      \o "::{h16}|(?:(?:{h16}:){{,6}}{h16})?::)">>,
    <<"ls32",
      "(?:{h16}:{h16}|{IPv4address})">>,
    <<"h16",
      "[0-9A-F]{{1,4}}">>,
    <<"IPv4address",
      "(?:{dec_octet}\\.){{3}}{dec_octet}">>,
    <<"dec_octet",
      "(?:25[0-5]|2[0-4][0-9]|[01]?[0-9][0-9]?)">>,
    <<"IPvFuture",
      "v[0-9A-F]+\\.(?:{unreserved}|{sub_delims}|:)+">>,
    <<"unreserved",
      "[a-zA-Z0-9_.~-]">>,
    <<"reserved",
      "(?:{gen_delims}|{sub_delims})">>,
    <<"pct_encoded",
      "%[0-9A-F][0-9A-F]">>,
    <<"gen_delims",
      "[:/?#[\\]@]">>,
    <<"sub_delims",
      "[!$&'()*+,;=]">>
  >>

\* Lines 132-174.
_uri_rules ==
  <<
    <<"URI_reference",
      "(?:{URI}|{relative_ref})">>,
    <<"URI",
      "{absolute_URI}(?:\\#{fragment})?">>,
    <<"absolute_URI",
      "{scheme}:{hier_part}(?:\\?{query})?">>,
    <<"relative_ref",
      "{relative_part}(?:\\?{query})?(?:\\#{fragment})?">>,
    <<"hier_part",
      "(?://{authority}{path_abempty}|{path_absolute}|{path_roo"
      \o "tless}|{path_empty})">>,
    <<"relative_part",
      "(?://{authority}{path_abempty}|{path_absolute}|{path_nos"
      \o "cheme}|{path_empty})">>,
    <<"authority",
      "(?:{userinfo}@)?{host}(?::{port})?">>,
    <<"host",
      "(?:{IP_literal}|{IPv4address}|{reg_name})">>,
    <<"userinfo",
      "(?:{unreserved}|{pct_encoded}|{sub_delims}|:)*">>,
    <<"reg_name",
      "(?:{unreserved}|{pct_encoded}|{sub_delims})*">>,
    <<"path",
      "(?:{path_abempty}|{path_absolute}|{path_noscheme}|{path_"
      \o "rootless}|{path_empty})">>,
    <<"path_abempty",
      "(?:/{segment})*">>,
    <<"path_absolute",
      "/(?:{segment_nz}(?:/{segment})*)?">>,
    <<"path_noscheme",
      "{segment_nz_nc}(?:/{segment})*">>,
    <<"path_rootless",
      "{segment_nz}(?:/{segment})*">>,
    <<"path_empty",
      "">>,
    <<"segment",
      "{pchar}*">>,
    <<"segment_nz",
      "{pchar}+">>,
    <<"segment_nz_nc",
      "(?:{unreserved}|{pct_encoded}|{sub_delims}|@)+">>,
    <<"query",
      "(?:{pchar}|/|\\?)*">>,
    <<"fragment",
      "(?:{pchar}|/|\\?)*">>,
    <<"pchar",
      "(?:{unreserved}|{pct_encoded}|{sub_delims}|:|@)">>,
    <<"unreserved",
      "[a-zA-Z0-9._~-]">>
  >>

\* Lines 179-234.
_iri_rules ==
  <<
    <<"IRI_reference",
      "(?:{IRI}|{irelative_ref})">>,
    <<"IRI",
      "{absolute_IRI}(?:\\#{ifragment})?">>,
    <<"absolute_IRI",
      "{scheme}:{ihier_part}(?:\\?{iquery})?">>,
    <<"irelative_ref",
      "(?:{irelative_part}(?:\\?{iquery})?(?:\\#{ifragment})?)">>,
    <<"ihier_part",
      "(?://{iauthority}{ipath_abempty}|{ipath_absolute}|{ipath"
      \o "_rootless}|{ipath_empty})">>,
    <<"irelative_part",
      "(?://{iauthority}{ipath_abempty}|{ipath_absolute}|{ipath"
      \o "_noscheme}|{ipath_empty})">>,
    <<"iauthority",
      "(?:{iuserinfo}@)?{ihost}(?::{port})?">>,
    <<"iuserinfo",
      "(?:{iunreserved}|{pct_encoded}|{sub_delims}|:)*">>,
    <<"ihost",
      "(?:{IP_literal}|{IPv4address}|{ireg_name})">>,
    <<"ireg_name",
      "(?:{iunreserved}|{pct_encoded}|{sub_delims})*">>,
    <<"ipath",
      "(?:{ipath_abempty}|{ipath_absolute}|{ipath_noscheme}|{ip"
      \o "ath_rootless}|{ipath_empty})">>,
    <<"ipath_empty",
      "">>,
    <<"ipath_rootless",
      "{isegment_nz}(?:/{isegment})*">>,
    <<"ipath_noscheme",
      "{isegment_nz_nc}(?:/{isegment})*">>,
    <<"ipath_absolute",
      "/(?:{isegment_nz}(?:/{isegment})*)?">>,
    <<"ipath_abempty",
      "(?:/{isegment})*">>,
    <<"isegment_nz_nc",
      "(?:{iunreserved}|{pct_encoded}|{sub_delims}|@)+">>,
    <<"isegment_nz",
      "{ipchar}+">>,
    <<"isegment",
      "{ipchar}*">>,
    <<"iquery",
      "(?:{ipchar}|{iprivate}|/|\\?)*">>,
    <<"ifragment",
      "(?:{ipchar}|/|\\?)*">>,
    <<"ipchar",
      "(?:{iunreserved}|{pct_encoded}|{sub_delims}|:|@)">>,
    <<"iunreserved",
      "(?:[a-zA-Z0-9._~-]|{ucschar})">>,
    <<"iprivate",
      "[\\uE000-\\uF8FF\\U000F0000-\\U000FFFFD\\U00100000-\\U0010FFFD"
      \o "]">>,
    <<"ucschar",
      "[\\xA0-\\uD7FF\\uF900-\\uFDCF\\uFDF0-\\uFFEF\\U00010000-\\U0001F"
      \o "FFD\\U00020000-\\U0002FFFD\\U00030000-\\U0003FFFD\\U00040000-"
      \o "\\U0004FFFD\\U00050000-\\U0005FFFD\\U00060000-\\U0006FFFD\\U00"
      \o "070000-\\U0007FFFD\\U00080000-\\U0008FFFD\\U00090000-\\U0009F"
      \o "FFD\\U000A0000-\\U000AFFFD\\U000B0000-\\U000BFFFD\\U000C0000-"
      \o "\\U000CFFFD\\U000D0000-\\U000DFFFD\\U000E1000-\\U000EFFFD]">>
  >>

\* Lines 293-304: the rules whose group has the name of the rule.
_GROUP_NAMES_BASE ==
    {"scheme", "port", "IPv6address", "IPv4address", "IPvFuture",
     "URI_reference", "URI", "absolute_URI", "relative_ref", "relative_part",
     "authority", "host", "userinfo", "reg_name", "query", "fragment",
     "IRI_reference", "IRI", "absolute_IRI", "irelative_ref",
     "irelative_part", "iauthority", "ihost", "iuserinfo", "ireg_name",
     "iquery", "ifragment"}

\* Lines 306-310.
DEFAULT_GROUP_NAMES ==
    [n \in _GROUP_NAMES_BASE
           \cup {"path_abempty", "path_absolute", "path_noscheme",
                 "path_rootless", "path_empty"}
           \cup {"ipath_abempty", "ipath_absolute", "ipath_noscheme",
                 "ipath_rootless", "ipath_empty"} |->
        IF n \in _GROUP_NAMES_BASE THEN n
        ELSE IF At(n, 1) = "i" THEN "ipath"
        ELSE "path"]

\* A list taken as it stands.
Unreversed(seq) == seq

\* seq[::-1]
Reversed(seq) == [j \in 1..Len(seq) |-> seq[Len(seq) + 1 - j]]

\* Line 282: the rules in the order the loop of format_patterns takes them.
RuleOrder ==
    Reversed(_common_rules) \o Reversed(_uri_rules) \o Reversed(_iri_rules)

\* Lines 283-288: the template of the rule, wrapped in a named group when
\* names has the rule.  (No name of the model is a callable.)
Wrapped(names, name, template) ==
    IF name \in DOMAIN names
    THEN "(?P<" \o names[name] \o ">" \o template \o ")"
    ELSE template

\* Index of the first brace of template at or after index i, or the index
\* after the end of template.
TextEnd(template, i) ==
    IF \A j \in i..Len(template) : At(template, j) \notin {"{", "}"}
    THEN Len(template) + 1
    ELSE CHOOSE j \in i..Len(template) :
            /\ At(template, j) \in {"{", "}"}
            /\ \A k \in i..(j - 1) : At(template, k) \notin {"{", "}"}

\* Index of the first "}" of template at or after index i, or 0.
FieldEnd(template, i) ==
    IF \A j \in i..Len(template) : At(template, j) # "}" THEN 0
    ELSE CHOOSE j \in i..Len(template) :
            /\ At(template, j) = "}"
            /\ \A k \in i..(j - 1) : At(template, k) # "}"

\* What format makes of a piece of template: its text and where it goes on.
Piece(text, next) == Return("str", [text |-> text, next |-> next])

\* The replacement field of template that begins at index i and ends at
\* index e: table[name], or KeyError.
FormatField(template, i, e, table) ==
    CASE e = 0 -> Raise("ValueError", "expected '}' before end of string")
      [] e = i + 1 -> Raise("IndexError", "tuple index out of range")
      [] e > i + 1 /\ Sub(template, i + 1, e - 1) \notin DOMAIN table ->
            Raise("KeyError", Sub(template, i + 1, e - 1))
      [] OTHER -> Piece(table[Sub(template, i + 1, e - 1)], e + 1)

\* The literal text of template from index i to before index e.
FormatText(template, i, e) == Piece(Sub(template, i, e - 1), e)

\* One piece of template.format(**table), from index i of template: "{{"
\* and "}}" give one brace, "{name}" gives table[name], other text itself.
FormatPiece(template, i, table) ==
    CASE Sub(template, i, i + 1) = "{{" -> Piece("{", i + 2)
      [] Sub(template, i, i + 1) = "}}" -> Piece("}", i + 2)
      [] Sub(template, i, i + 1) \notin {"{{", "}}"} /\ At(template, i) = "{" ->
            FormatField(template, i, FieldEnd(template, i + 1), table)
      [] Sub(template, i, i + 1) \notin {"{{", "}}"} /\ At(template, i) = "}" ->
            Raise("ValueError", "Single '}' encountered in format string")
      [] OTHER -> FormatText(template, i, TextEnd(template, i))

(***************************************************************************)
(* Bounds of the model and the inputs drawn within them.                   *)
(***************************************************************************)
MaxBaseSegs == 2    \* segments of a generated base path

MaxRefSegs == 2     \* segments of a generated reference path

MaxLen == 4         \* length of a string handed to parse

MaxCalls == 3       \* get_compiled_pattern calls of one session

\* The paths of 1..n segments drawn from segs, joined by "/".
RECURSIVE Joined(_, _)
Joined(segs, n) ==
    IF n = 0 THEN {}
    ELSE segs \cup {p \o "/" \o x : p \in Joined(segs, n - 1), x \in segs}

\* The strings of at most n characters of alphabet.
RECURSIVE Strings(_, _)
Strings(alphabet, n) ==
    IF n = 0 THEN {""}
    ELSE LET S == Strings(alphabet, n - 1) IN
         S \cup {x \o ch : x \in S, ch \in alphabet}

\* resolve.test_cases_base and resolve.test_cases
test_cases_base == "http://a/b/c/d;p?q"

test_cases ==
    { <<"g:h",           "g:h">>,
      <<"g",             "http://a/b/c/g">>,
      <<"./g",           "http://a/b/c/g">>,
      <<"g/",            "http://a/b/c/g/">>,
      <<"/g",            "http://a/g">>,
      <<"//g",           "http://g">>,
      <<"?y",            "http://a/b/c/d;p?y">>,
      <<"g?y",           "http://a/b/c/g?y">>,
      <<"#s",            "http://a/b/c/d;p?q#s">>,
      <<"g#s",           "http://a/b/c/g#s">>,
      <<"g?y#s",         "http://a/b/c/g?y#s">>,
      <<";x",            "http://a/b/c/;x">>,
      <<"g;x",           "http://a/b/c/g;x">>,
      <<"g;x?y#s",       "http://a/b/c/g;x?y#s">>,
      <<"",              "http://a/b/c/d;p?q">>,
      <<".",             "http://a/b/c/">>,
      <<"./",            "http://a/b/c/">>,
      <<"..",            "http://a/b/">>,
      <<"../",           "http://a/b/">>,
      <<"../g",          "http://a/b/g">>,
      <<"../..",         "http://a/">>,
      <<"../../",        "http://a/">>,
      <<"../../g",       "http://a/g">>,
      <<"../../../g",    "http://a/g">>,
      <<"../../../../g", "http://a/g">>,
      <<"/./g",          "http://a/g">>,
      <<"/../g",         "http://a/g">>,
      <<"g.",            "http://a/b/c/g.">>,
      <<".g",            "http://a/b/c/.g">>,
      <<"g..",           "http://a/b/c/g..">>,
      <<"..g",           "http://a/b/c/..g">>,
      <<"./../g",        "http://a/b/g">>,
      <<"./g/.",         "http://a/b/c/g/">>,
      <<"g/./h",         "http://a/b/c/g/h">>,
      <<"g/../h",        "http://a/b/c/h">>,
      <<"g;x=1/./y",     "http://a/b/c/g;x=1/y">>,
      <<"g;x=1/../y",    "http://a/b/c/y">> }

\* Base paths: plain segments and "..".
BasePaths == Joined({"b", ".."}, MaxBaseSegs)

\* Bases given as strings: with an authority, without one (rootless), with
\* a query, with a ucschar segment, without a scheme, and not an IRI at all.
BaseStrings ==
    {"a://h"} \cup {"a://h/" \o p : p \in BasePaths}
    \cup {"a:" \o p : p \in BasePaths}
    \cup {test_cases_base, "a://h/b?q", "a://h/^/b", "a:^/b"}
    \cup {"b/c", "//h/b", "a b"}

\* Bases given as component maps: no scheme key, an empty scheme, and a
\* base whose path is given under its IRI name.
BaseDicts ==
    { [path |-> "b/c"],
      [scheme |-> "", authority |-> "h", path |-> "/b"],
      [scheme |-> "a", iauthority |-> "h", ipath |-> "/b/c"] }

RefPaths == Joined({"g", ".", ".."}, MaxRefSegs)

\* References given as strings: paths, every combination of the other
\* components, and one string that is no IRI reference.
RefStrings ==
    {""} \cup RefPaths \cup {"/" \o p : p \in RefPaths}
    \cup {s \o a \o p \o t : s \in {"", "a:", "A:", "g:"}, a \in {"", "//h"},
                             p \in {"", "g"}, t \in {"", "?y", "#s"}}
    \cup {"g g"}

\* References given as component maps: one without a scheme key.
RefDicts ==
    { [path |-> "g"],
      [scheme |-> None, ipath |-> "../g"] }

ResolveCalls ==
    [base : {Str(test_cases_base)}, uriref : {Str(t[1]) : t \in test_cases},
     strict : BOOLEAN, return_parts : BOOLEAN]
    \cup
    [base : {Str(s) : s \in BaseStrings} \cup {Dict(d) : d \in BaseDicts},
     uriref : {Str(s) : s \in RefStrings} \cup {Dict(d) : d \in RefDicts},
     strict : BOOLEAN, return_parts : {FALSE}]

\* Strings handed to parse: the delimiters, a letter and the line feed.
ParseChars == {"a", ":", "/", "?", "#", "\n"}

\* parse calls: every string under the two widest rules, and a few strings
\* under the other rules (a rule that is no reference rule, no rule at all,
\* and a name that is no rule).
ParseCalls ==
    [string : Strings(ParseChars, MaxLen), rule : {"URI", "IRI_reference"}]
    \cup
    [string : {"a:", "a", "a:^", "//a?#", ":"},
     rule : {"IRI", "relative_ref", "absolute_URI", "scheme", "", "nope"}]

\* compose calls made directly: every subset of the parameters given.
ComposeCalls ==
    [scheme : {None, "a"}, authority : {None, "h"}, path : {None, "/x"},
     query : {None, "q"}, fragment : {None, "f"}, iauthority : {None, "h"},
     ipath : {None, "/x"}, iquery : {None, "q"}, ifragment : {None, "f"}]

\* get_compiled_pattern calls: a rule name, a template, a template naming
\* no rule, and a rule whose pattern is empty; two values of flags.
CacheCalls ==
    [rule : {"URI", "^%(URI)s$", "^%(nope)s$", "path_empty"}, flags : {0, 2}]

\* format_patterns calls: no group names, the default ones, and the names
\* of the example of lines 271-272.
FormatCalls ==
    {EmptyDict, DEFAULT_GROUP_NAMES, [path |-> "outermost_group_name"]}

(***************************************************************************)
(* The state machine.                                                      *)
(***************************************************************************)
NoCall == [op |-> "none"]

Init ==
    /\ REGEX \in BOOLEAN
    /\ cache = EmptyDict
    /\ compiles = 0
    /\ pc = "idle"
    /\ call = NoCall
    /\ B = None /\ R = None /\ T = None
    /\ c = 0
    /\ ret = NoReturn
    /\ log = <<>>
    /\ formatted = EmptyDict
    /\ position = 0
    /\ pat = ""
    /\ at = 0
    /\ expansion = ""

\* resolve(base, uriref, strict, return_parts) is called.
Resolve_Call ==
    /\ pc = "idle"
    /\ \E a \in ResolveCalls :
          call' = [op |-> "resolve", base |-> a.base, uriref |-> a.uriref,
                   strict |-> a.strict, return_parts |-> a.return_parts]
    /\ pc' = "base"
    /\ UNCHANGED <<REGEX, cache, compiles, B, R, T, c, ret, log>>
    /\ UNCHANGED <<formatted, position, pat, at, expansion>>

\* The cache after a step that went through get_compiled_pattern.
Cached(p) == cache' = p.cache /\ compiles' = p.compiles

\* Lines 444-449.
BaseParsed(p) ==
    /\ Cached(p)
    /\ IF p.ret.status = "raise"
       THEN ret' = p.ret /\ pc' = "raised" /\ UNCHANGED B
       ELSE B' = p.ret.value /\ pc' = "ref" /\ UNCHANGED ret

Resolve_Base ==
    /\ pc = "base"
    /\ BaseParsed(ResolveBase(cache, compiles, REGEX, call.base))
    /\ UNCHANGED <<REGEX, call, R, T, c, log>>
    /\ UNCHANGED <<formatted, position, pat, at, expansion>>

\* Lines 451-454.
RefParsed(p) ==
    /\ Cached(p)
    /\ IF p.ret.status = "raise"
       THEN ret' = p.ret /\ pc' = "raised" /\ UNCHANGED R
       ELSE R' = p.ret.value /\ pc' = "merge" /\ UNCHANGED ret

Resolve_Ref ==
    /\ pc = "ref"
    /\ RefParsed(ResolveRef(cache, compiles, REGEX, call.uriref))
    /\ UNCHANGED <<REGEX, call, B, T, c, log>>
    /\ UNCHANGED <<formatted, position, pat, at, expansion>>

\* Lines 457-486.
Merged(g, m) ==
    /\ Cached(g)
    /\ IF m.status = "raise"
       THEN ret' = m /\ pc' = "raised" /\ UNCHANGED T
       ELSE T' = m.value /\ pc' = "dots" /\ UNCHANGED ret

Resolve_Merge ==
    /\ pc = "merge"
    /\ Merged(ResolvePatterns(cache, compiles, REGEX), Merge(B, R, call.strict))
    /\ UNCHANGED <<REGEX, call, B, R, c, log>>
    /\ UNCHANGED <<formatted, position, pat, at, expansion>>

\* Lines 487-488.
Resolve_DotSegments ==
    /\ pc = "dots"
    /\ IF T["path"] = None
       THEN ret' = Raise("TypeError", "sub") /\ pc' = "raised" /\ UNCHANGED <<T, c>>
       ELSE /\ T' = [T EXCEPT !["path"] = _dot_segments_sub(@)]
            /\ c' = 1
            /\ pc' = "loop"
            /\ UNCHANGED ret
    /\ UNCHANGED <<REGEX, cache, compiles, call, B, R, log>>
    /\ UNCHANGED <<formatted, position, pat, at, expansion>>

\* Lines 489-490: one turn of the while loop.
Replaced(r) == T' = [T EXCEPT !["path"] = r[1]] /\ c' = r[2]

Resolve_TwoDots ==
    /\ pc = "loop"
    /\ c # 0
    /\ Replaced(_2dots_segments_subn(T["path"]))
    /\ UNCHANGED <<REGEX, cache, compiles, pc, call, B, R, ret, log>>
    /\ UNCHANGED <<formatted, position, pat, at, expansion>>

\* Lines 489, 491-494: the loop ends and resolve returns.
Resolve_Return ==
    /\ pc = "loop"
    /\ c = 0
    /\ ret' = ResolveResult(T, call.return_parts)
    /\ pc' = "done"
    /\ UNCHANGED <<REGEX, cache, compiles, call, B, R, T, c, log>>
    /\ UNCHANGED <<formatted, position, pat, at, expansion>>

Next ==
    \/ Resolve_Call
    \/ Resolve_Base
    \/ Resolve_Ref
    \/ Resolve_Merge
    \/ Resolve_DotSegments
    \/ Resolve_TwoDots
    \/ Resolve_Return

Spec == Init /\ [][Next]_vars

\* parse(string, rule) is called and returns or raises.
Parsed(a, p) ==
    /\ call' = [op |-> "parse", string |-> a.string, rule |-> a.rule,
                kw |-> EmptyDict]
    /\ Cached(p)
    /\ ret' = p.ret
    /\ pc' = IF p.ret.status = "raise" THEN "raised" ELSE "parsed"

Parse_Call ==
    /\ pc = "idle"
    /\ \E a \in ParseCalls :
          Parsed(a, parse(cache, compiles, REGEX, a.string, a.rule))
    /\ UNCHANGED <<REGEX, B, R, T, c, log>>
    /\ UNCHANGED <<formatted, position, pat, at, expansion>>

\* compose(**d) is called with the dict d that parse returned.
Compose_Parsed ==
    /\ pc = "parsed"
    /\ call' = [op |-> "compose", string |-> call.string, rule |-> call.rule,
                kw |-> ret.value]
    /\ ret' = Return("str", compose(ret.value))
    /\ pc' = "composed"
    /\ UNCHANGED <<REGEX, cache, compiles, B, R, T, c, log>>
    /\ UNCHANGED <<formatted, position, pat, at, expansion>>

\* compose(**kw) is called with the parameters that are not None.
Compose_Call ==
    /\ pc = "idle"
    /\ \E a \in ComposeCalls :
          LET kw == [k \in {x \in DOMAIN a : a[x] # None} |-> a[k]] IN
          /\ call' = [op |-> "compose", string |-> None, rule |-> None, kw |-> kw]
          /\ ret' = Return("str", compose(kw))
    /\ pc' = "done"
    /\ UNCHANGED <<REGEX, cache, compiles, B, R, T, c, log>>
    /\ UNCHANGED <<formatted, position, pat, at, expansion>>

NextParse == Parse_Call \/ Compose_Parsed \/ Compose_Call

SpecParse == Init /\ [][NextParse]_vars

\* get_compiled_pattern(rule, flags) is called and returns or raises.
Compiled(a, g) ==
    /\ call' = [op |-> "get_compiled_pattern", rule |-> a.rule, flags |-> a.flags]
    /\ Cached(g)
    /\ ret' = g.ret
    /\ log' = Append(log, [key |-> <<a.rule, a.flags>>, status |-> g.ret.status])

GetCompiledPattern_Call ==
    /\ Len(log) < MaxCalls
    /\ \E a \in CacheCalls :
          Compiled(a, get_compiled_pattern(cache, compiles, REGEX, a.rule, a.flags))
    /\ UNCHANGED <<REGEX, pc, B, R, T, c>>
    /\ UNCHANGED <<formatted, position, pat, at, expansion>>

NextCache == GetCompiledPattern_Call

SpecCache == Init /\ [][NextCache]_vars

\* format_patterns(**names) is called: line 281.
FormatPatterns_Call ==
    /\ pc = "idle"
    /\ \E names \in FormatCalls :
          call' = [op |-> "format_patterns", names |-> names]
    /\ formatted' = EmptyDict
    /\ position' = 1
    /\ pc' = "rule"
    /\ UNCHANGED <<REGEX, cache, compiles, B, R, T, c, ret, log, pat, at, expansion>>

\* Lines 282-288: the loop takes its next rule and wraps the template.
FormatPatterns_Rule ==
    /\ pc = "rule"
    /\ position <= Len(RuleOrder)
    /\ pat' = Wrapped(call.names, RuleOrder[position][1], RuleOrder[position][2])
    /\ at' = 1
    /\ expansion' = ""
    /\ pc' = "format"
    /\ UNCHANGED <<REGEX, cache, compiles, call, B, R, T, c, ret, log,
                   formatted, position>>

\* Line 289, pat.format(**formatted): the next piece of pat.
Formatted(f) ==
    IF f.status = "raise"
    THEN ret' = f /\ pc' = "raised" /\ UNCHANGED <<at, expansion>>
    ELSE /\ at' = f.value.next
         /\ expansion' = expansion \o f.value.text
         /\ UNCHANGED <<ret, pc>>

FormatPatterns_Format ==
    /\ pc = "format"
    /\ at <= Len(pat)
    /\ Formatted(FormatPiece(pat, at, formatted))
    /\ UNCHANGED <<REGEX, cache, compiles, call, B, R, T, c, log,
                   formatted, position, pat>>

\* Line 289, formatted[name] = ...: pat.format is at the end of pat.
FormatPatterns_Store ==
    /\ pc = "format"
    /\ at > Len(pat)
    /\ formatted' = [x \in DOMAIN formatted \cup {RuleOrder[position][1]} |->
                        IF x = RuleOrder[position][1] THEN expansion
                        ELSE formatted[x]]
    /\ position' = position + 1
    /\ pc' = "rule"
    /\ UNCHANGED <<REGEX, cache, compiles, call, B, R, T, c, ret, log,
                   pat, at, expansion>>

\* Line 290: the list is at its end.
FormatPatterns_Return ==
    /\ pc = "rule"
    /\ position > Len(RuleOrder)
    /\ ret' = Return("dict", formatted)
    /\ pc' = "done"
    /\ UNCHANGED <<REGEX, cache, compiles, call, B, R, T, c, log,
                   formatted, position, pat, at, expansion>>

NextFormat ==
    \/ FormatPatterns_Call
    \/ FormatPatterns_Rule
    \/ FormatPatterns_Format
    \/ FormatPatterns_Store
    \/ FormatPatterns_Return

SpecFormat == Init /\ [][NextFormat]_vars

(***************************************************************************)
(* RFC 3986, section 5.2.4: remove_dot_segments, the algorithm the two     *)
(* passes of resolve stand for.                                            *)
(***************************************************************************)
\* The output buffer without its last segment and the "/" before it.
RemoveLastSegment(out) ==
    LET k == LastSlash(out, Len(out)) IN
    IF k <= 1 THEN "" ELSE Sub(out, 1, k - 1)

RECURSIVE RemoveDots(_, _)
RemoveDots(in, out) ==
    IF in = "" THEN out
    ELSE IF Sub(in, 1, 3) = "../" THEN RemoveDots(From(in, 4), out)          \* 2A
    ELSE IF Sub(in, 1, 2) = "./" THEN RemoveDots(From(in, 3), out)           \* 2A
    ELSE IF Sub(in, 1, 3) = "/./" THEN RemoveDots(From(in, 3), out)          \* 2B
    ELSE IF in = "/." THEN RemoveDots("/", out)                              \* 2B
    ELSE IF Sub(in, 1, 4) = "/../"
    THEN RemoveDots(From(in, 4), RemoveLastSegment(out))                     \* 2C
    ELSE IF in = "/.." THEN RemoveDots("/", RemoveLastSegment(out))          \* 2C
    ELSE IF in = "." \/ in = ".." THEN out                                   \* 2D
    ELSE LET e == Span(in, 2, {"/"}) IN                                      \* 2E
         RemoveDots(From(in, e), out \o Sub(in, 1, e - 1))

remove_dot_segments(path) == RemoveDots(path, "")

(***************************************************************************)
(* Properties of resolve (specification Spec).                             *)
(***************************************************************************)
\* The call of resolve is over, by a return or by an exception.
Finished == pc \in {"done", "raised"}

\* The call of resolve got past lines 444-454: B and R are dicts.
Accepted == pc = "done" \/ (pc = "raised" /\ ret.type # "ValueError")

\* The path of T as line 486 leaves it, before the two passes.
MergedT == Merge(B, R, call.strict).value

\* C1: with the base "http://a/b/c/d;p?q", strict=True and
\* return_parts=False, resolve raises on no reference of resolve.test_cases
\* and returns the target string listed with it.
C1_TestCases ==
    \A t \in test_cases :
        ( /\ call.op = "resolve"
          /\ call.base = Str(test_cases_base)
          /\ call.uriref = Str(t[1])
          /\ call.strict
          /\ ~call.return_parts )
        => /\ pc # "raised"
           /\ pc = "done" => ret = Return("str", t[2])

\* C1 witness: the last case of the table has returned its target.
C1_Witness ==
    /\ pc = "done"
    /\ call.base = Str(test_cases_base)
    /\ call.uriref = Str("g;x=1/../y")
    /\ call.strict /\ ~call.return_parts
    /\ ret = Return("str", "http://a/b/c/y")

\* C2: when base and reference are accepted and the reference has no scheme
\* or a scheme that differs from the base's, the call ends as the same call
\* with the other value of strict ends (same result, or same exception).
C2_StrictOnlySameScheme ==
    ( /\ Accepted
      /\ Get(R, "scheme") = None \/ Get(R, "scheme") # B["scheme"] )
    => ret = resolve(REGEX, call.base, call.uriref, ~call.strict,
                     call.return_parts)

\* C2 witness: a non-strict call whose reference has a scheme other than the
\* base's has returned.
C2_Witness ==
    /\ pc = "done"
    /\ ~call.strict
    /\ R["scheme"] # None
    /\ R["scheme"] # B["scheme"]
    /\ call.uriref = Str("g://h?y")

\* The base of the call has no scheme.
NoScheme(base) ==
    IF base.type = "str" THEN Cut(base.value).scheme = None
    ELSE Falsy(Get(base.value, "scheme"))

\* The exception of line 449.
ExpectedAnIRI(base) ==
    Raise("ValueError", [text |-> "Expected an IRI (with scheme), not %r.",
                         args |-> <<base.value>>])

C8_EmptyReference ==
    (pc = "done" /\ call.uriref = Str(""))
    => /\ T["scheme"] = B["scheme"]
       /\ T["authority"] = B["authority"]
       /\ T["path"] = B["path"]
       /\ T["query"] = B["query"]
       /\ T["fragment"] = None

\* C9: the two passes of resolve leave the path that remove_dot_segments of
\* RFC 3986, section 5.2.4, makes of the merged path.
C9_RemoveDotSegments ==
    pc = "done" => T["path"] = remove_dot_segments(MergedT["path"])

\* C10: a merged path "/X/../g" whose segment X is made of ucschar becomes
\* "/g".
C10_PopsUcscharSegment ==
    (pc = "done" /\ MergedT["path"] = "/^/../g") => T["path"] = "/g"

(***************************************************************************)
(* Properties of parse and compose (specification SpecParse).              *)
(***************************************************************************)
\* C4: parse returns a dict only for a string that the rule matches from
\* its first to its last character.
C4_FullMatchOnly ==
    (pc = "parsed" /\ call.rule \in REFERENCE_RULES)
    => FullMatch(call.string, call.rule)

\* C5: for a string s that a reference rule matches, parse(s, rule) does not
\* raise, and compose(**parse(s, rule)) is s.
C5_RoundTrip ==
    ( /\ call.op \in {"parse", "compose"}
      /\ call.rule \in REFERENCE_RULES
      /\ FullMatch(call.string, call.rule) )
    => /\ pc # "raised"
       /\ pc = "composed" => ret = Return("str", call.string)

\* C5 witness: a reference whose authority, query and fragment are present
\* and empty, and whose scheme is absent, came back from compose.
C5_Witness ==
    /\ pc = "composed"
    /\ call.rule = "IRI_reference"
    /\ call.string = "//?#"
    /\ call.kw["scheme"] = None
    /\ call.kw["authority"] = ""
    /\ ret = Return("str", "//?#")

\* C6: compose returns what it would return if every i-prefixed argument
\* whose plain argument is absent had been passed under the plain name.
C6_FoldBeforeEmit ==
    (pc = "done" /\ call.op = "compose")
    => ret = Return("str", compose(_i2u(call.kw)))

(***************************************************************************)
(* Properties of the cache (specification SpecCache).                      *)
(***************************************************************************)
\* The keys of the calls of the session so far.
Requested == {log[i].key : i \in 1..Len(log)}

\* The keys of the calls that returned a matcher.
Served == {log[i].key : i \in {j \in 1..Len(log) : log[j].status = "return"}}

\* The cache holds one matcher of its own for every key that was served.
OnePerServedKey ==
    /\ DOMAIN cache = Served
    /\ compiles = Cardinality(DOMAIN cache)
    /\ \A k1, k2 \in DOMAIN cache : cache[k1].id = cache[k2].id => k1 = k2

\* A call keeps every entry, and a call for a key in the cache returns the
\* entry of the key and compiles nothing.
KeepsEntries ==
    /\ \A k \in DOMAIN cache : k \in DOMAIN cache' /\ cache'[k] = cache[k]
    /\ <<call'.rule, call'.flags>> \in DOMAIN cache
       => /\ cache' = cache
          /\ compiles' = compiles
          /\ ret' = Return("matcher", cache[<<call'.rule, call'.flags>>])

\* C7 (as the code has it): after any sequence of get_compiled_pattern
\* calls the cache holds exactly one matcher per key whose call returned; an
\* entry is never replaced or removed, and a later call with its key returns
\* it without compiling and without changing another entry.
C7_CacheKeepsFirst == []OnePerServedKey /\ [][KeepsEntries]_vars

\* C7 witness: the third call has the key of the first, another key came
\* between them, and the third call returned the matcher of the first.
C7_Witness ==
    /\ Len(log) = 3
    /\ log[1].key = log[3].key
    /\ log[2].key # log[1].key
    /\ log[1].status = "return" /\ log[2].status = "return"
    /\ compiles = 2
    /\ ret = Return("matcher", [id |-> 1, rule |-> log[1].key[1],
                               flags |-> log[1].key[2]])

\* C7 (as stated): the cache holds a matcher for every key that was
\* requested.
C7_OnePerRequestedKey == DOMAIN cache = Requested

(***************************************************************************)
(* The while loop of resolve (specification Spec).                         *)
(***************************************************************************)
\* One step taken inside the loop: a turn that replaces leaves a strictly
\* shorter path and goes on, a turn without match leaves the path as it is
\* and c = 0, and with c = 0 the loop is left by the return; no step of the
\* loop raises.
LoopStep ==
    pc = "loop" =>
        /\ pc' \in {"loop", "done"}
        /\ T'["path"] # None
        /\ pc' = "loop" /\ c' # 0 => Len(T'["path"]) < Len(T["path"])
        /\ pc' = "loop" /\ c' = 0 => T' = T /\ c # 0
        /\ c = 0 <=> pc' = "done"

\* The turn that the loop takes next, seen from the state before it: it
\* replaces and leaves a strictly shorter path, or it finds no match and
\* leaves the path as it is.  No turn leaves the state as it was with c # 0.
TurnShortens ==
    (pc = "loop" /\ c # 0) =>
        /\ _2dots_segments_subn(T["path"])[2] \in {0, 1}
        /\ _2dots_segments_subn(T["path"])[2] = 1
              => Len(_2dots_segments_subn(T["path"])[1]) < Len(T["path"])
        /\ _2dots_segments_subn(T["path"])[2] = 0
              => _2dots_segments_subn(T["path"])[1] = T["path"]

\* The root is kept: a merged path that begins with "/" still does when
\* resolve returns.
RootKept ==
    (pc = "done" /\ Sub(MergedT["path"], 1, 1) = "/") => Sub(T["path"], 1, 1) = "/"

\* C11: the loop of lines 488-490 ends for every path: every turn that
\* replaces strictly shortens T['path'] (the length of the path is a variant
\* of the loop, so no run takes turns for ever), the first turn without
\* match ends the loop by the return, no turn raises, and a ".." above the
\* root is dropped with the root kept.
C11_LoopTerminates == [][LoopStep]_vars /\ []TurnShortens /\ []RootKept

\* C11 witness: the reference ascends two levels above the root of the base
\* path, and resolve has returned the path "/g".
C11_Witness ==
    /\ pc = "done"
    /\ call.base = Str(test_cases_base)
    /\ call.uriref = Str("../../../../g")
    /\ MergedT["path"] = "/b/c/../../../../g"
    /\ T["path"] = "/g"

(* The expansion order of format_patterns (specification SpecFormat). *)

\* The row the loop takes at turn k, counted back from the end of each of
\* the three lists in turn.
RowAt(k) ==
    IF k <= Len(_common_rules)
    THEN _common_rules[Len(_common_rules) + 1 - k]
    ELSE IF k <= Len(_common_rules) + Len(_uri_rules)
    THEN _uri_rules[Len(_common_rules) + Len(_uri_rules) + 1 - k]
    ELSE _iri_rules[Len(_common_rules) + Len(_uri_rules) + Len(_iri_rules) + 1 - k]

\* The names a template refers to: what stands between a "{" that a letter
\* follows and the next "}".
References(template) ==
    {Sub(template, j + 1, FieldEnd(template, j + 1) - 1) :
        j \in {k \in 1..Len(template) :
                  At(template, k) = "{" /\ At(template, k + 1) \in LOWER \cup UPPER}}

\* A pattern with no placeholder left in it: no "{" that a name follows.
Ground(p) ==
    \A j \in 1..Len(p) :
        At(p, j) = "{" => At(p, j + 1) \notin LOWER \cup UPPER \cup {"_"}

\* C12: format_patterns takes the rules of _common_rules from last to first,
\* then those of _uri_rules, then those of _iri_rules; whenever a rule is
\* being expanded, every rule name its template refers to is already in
\* formatted; no call raises; and the table returned has every rule, each
\* with a pattern free of placeholders.  This holds for no group names, for
\* DEFAULT_GROUP_NAMES and for a single group name.
C12_ExpansionOrder ==
    call.op = "format_patterns" =>
        /\ pc # "raised"
        /\ pc = "format" =>
              /\ pat = Wrapped(call.names, RowAt(position)[1], RowAt(position)[2])
              /\ References(pat) \subseteq DOMAIN formatted
        /\ pc = "done" =>
              /\ ret.status = "return"
              /\ DOMAIN ret.value = RuleNames
              /\ \A n \in DOMAIN ret.value : Ground(ret.value[n])

\* C12 witness: format_patterns(**DEFAULT_GROUP_NAMES) has returned, and its
\* IRI_reference, the last rule expanded, is the 10930 characters long
\* pattern that begins with the group of that name.
C12_Witness ==
    /\ pc = "done"
    /\ call.op = "format_patterns"
    /\ call.names = DEFAULT_GROUP_NAMES
    /\ position = Len(RuleOrder) + 1
    /\ Len(ret.value["IRI_reference"]) = 10930
    /\ Sub(ret.value["IRI_reference"], 1, 18) = "(?P<IRI_reference>"

=============================================================================
